---- MODULE Spec2Model ----
(***************************************************************************)
(* The read-API client (WrapperConnection) and the response transformer    *)
(* toMetadataFromReadApiAsset of src/scripts/createAndMint.ts.             *)
(*                                                                         *)
(* JavaScript values are tagged records, so that undefined, null, numbers, *)
(* strings and objects stay distinct and typeof, truthiness and ?? can be  *)
(* computed the way the language computes them.                            *)
(***************************************************************************)
EXTENDS Integers, Sequences, FiniteSets, TLC

VARIABLES rpcEndpoint, pc, method, input, sent, net, response, outcome,
          asset, metadata

vars == <<rpcEndpoint, pc, method, input, sent, net, response, outcome,
          asset, metadata>>

(***************************************************************************)
(* Bounds of the model.                                                    *)
(***************************************************************************)
NumCalls == 2          \* calls in flight at once against one client
MaxPage == 1           \* page numbers 0..MaxPage
MaxAuthorities == 2    \* longest authorities list
MaxGrouping == 2       \* longest grouping list

Calls == 1..NumCalls

(***************************************************************************)
(* JavaScript values.                                                      *)
(***************************************************************************)
Undefined == [t |-> "undefined"]
Null == [t |-> "null"]
Num(n) == [t |-> "number", n |-> n]
Str(s) == [t |-> "string", s |-> s]
Obj(props) == [t |-> "object", props |-> props]

TypeOf(x) == IF x.t = "null" THEN "object" ELSE x.t

\* ToBoolean: undefined, null, 0 and "" are falsy, an object is truthy
Truthy(x) ==
  CASE x.t = "undefined" -> FALSE
    [] x.t = "null" -> FALSE
    [] x.t = "number" -> x.n # 0
    [] x.t = "string" -> x.s # ""
    [] OTHER -> TRUE

Nullish(x) == x.t \in {"undefined", "null"}

\* a || b : the mutant of ??, which also replaces 0 and ""
CoalesceFalsy(x, d) == IF Truthy(x) THEN x ELSE d

\* a ?? b
Coalesce(x, d) == IF Nullish(x) THEN d ELSE x

\* o.k for a value that is not null or undefined: a missing property, and any
\* property of a primitive, reads as undefined
Get(o, k) == IF o.t = "object" /\ k \in DOMAIN o.props THEN o.props[k] ELSE Undefined

\* new PublicKey(base58) and PublicKey.toBase58()
PublicKey(b58) == [t |-> "PublicKey", b58 |-> b58]
toBase58(key) == key.b58

(***************************************************************************)
(* Outcomes of a call: still running, returned a value, or threw.          *)
(***************************************************************************)
Running == [kind |-> "running"]
Returned(v) == [kind |-> "returned", value |-> v]
Threw(name, message, cause) ==
  [kind |-> "threw", name |-> name, message |-> message, cause |-> cause]

NoCause == [name |-> "none"]
\* new ReadApiError(message, cause)
ReadApiError(message, cause) == Threw("ReadApiError", message, cause)

(***************************************************************************)
(* What fetch can settle with, and what the endpoint can answer.           *)
(***************************************************************************)
NetworkFailure == [k |-> "rejected"]
HttpResponse(status, body) == [k |-> "response", status |-> status, body |-> body]
\* Response.ok
Ok(r) == r.status >= 200 /\ r.status <= 299

NotJson == [t |-> "notjson"]

AssetFields == {"id", "authorities", "grouping", "compression", "supply",
                "royalty", "content", "creators", "mutable"}

\* the object the endpoint puts in result: the subject it was asked about,
\* with the Asset fields named in keys
ResultObject(subject, keys) ==
  Obj([k \in keys |-> IF k = "id" THEN subject ELSE Str(k)])

Subject(envelope) ==
  IF "id" \in DOMAIN envelope.params THEN envelope.params.id ELSE Str(envelope.method)

Behaviours == {"networkFailure", "http500", "notJson", "jsonNull", "jsonNumber",
               "rpcError", "resultNull", "partial", "complete"}

\* the endpoint is an untrusted collaborator: any behaviour on any request
Answer(envelope, behaviour) ==
  CASE behaviour = "networkFailure" -> NetworkFailure
    [] behaviour = "http500" -> HttpResponse(500, NotJson)
    [] behaviour = "notJson" -> HttpResponse(200, NotJson)
    [] behaviour = "jsonNull" -> HttpResponse(200, Null)
    [] behaviour = "jsonNumber" -> HttpResponse(200, Num(5))
    [] behaviour = "rpcError" ->
         HttpResponse(200, Obj([jsonrpc |-> Str("2.0"), error |-> Str("not found")]))
    [] behaviour = "resultNull" -> HttpResponse(200, Obj([result |-> Null]))
    [] behaviour = "partial" ->
         HttpResponse(200, Obj([result |-> ResultObject(Subject(envelope), {"id"})]))
    [] OTHER ->
         HttpResponse(200, Obj([result |-> ResultObject(Subject(envelope), AssetFields)]))

(***************************************************************************)
(* callReadApi: the request it posts.                                      *)
(***************************************************************************)
RpcRequest(m, params) == [method |-> m, id |-> Undefined, params |-> params]

\* JSON.stringify leaves out the properties whose value is undefined
Stringify(params) ==
  [k \in {f \in DOMAIN params : params[f] # Undefined} |-> params[k]]

Envelope(request) ==
  [jsonrpc |-> "2.0",
   method |-> request.method,
   id |-> Coalesce(request.id, Str("rpd-op-123")),
   params |-> Stringify(request.params)]

\* validatePagination: TRUE when it throws
PaginationRejected(page, before, after) ==
  TypeOf(page) = "number" /\ (Truthy(before) \/ Truthy(after))

PaginationError ==
  ReadApiError("Pagination Error. Only one pagination parameter supported per query.",
               NoCause)

\* { ...input, page: input.page ?? 1, before: input.before ?? null, ... }
ListParams(in) ==
  [in EXCEPT !.page = Coalesce(in.page, Num(1)),
             !.before = Coalesce(in.before, Null),
             !.after = Coalesce(in.after, Null),
             !.limit = Coalesce(in.limit, Null),
             !.sortBy = Coalesce(in.sortBy, Null)]

NoResultMessage(m) ==
  CASE m = "getAsset" -> "No asset returned"
    [] m = "getAssetProof" -> "No asset proof returned"
    [] OTHER -> "No results returned"

(***************************************************************************)
(* The continuation of a call once fetch has settled with r: the status    *)
(* check of callReadApi, whose catch wraps every failure.                  *)
(***************************************************************************)
FetchFailed(r) == r.k = "rejected" \/ ~Ok(r)

FetchError(r) ==
  IF r.k = "rejected"
    THEN ReadApiError("Failed to call ReadAPI", [name |-> "TypeError"])
    ELSE ReadApiError("Failed to call ReadAPI", [name |-> "Error", status |-> r.status])

\* Once response.json() has settled on body: callReadApi returns the parsed
\* body, and the method destructures { result } from it and checks it.
AfterJson(m, body) ==
  CASE body = NotJson ->
         ReadApiError("Failed to call ReadAPI", [name |-> "SyntaxError"])
    [] body = Null ->
         Threw("TypeError", "Cannot destructure property 'result' of null", NoCause)
    [] OTHER ->
         IF Truthy(Get(body, "result"))
           THEN Returned(Get(body, "result"))
           ELSE ReadApiError(NoResultMessage(m), NoCause)

(***************************************************************************)
(* The inputs the callers draw from.                                       *)
(***************************************************************************)
Pages == {Undefined} \cup {Num(n) : n \in 0..MaxPage}
Cursors == {Undefined, Null, Str(""), Str("c1")}
Limits == {Undefined, Num(5)}
SortBys == {Undefined, Obj([sortBy |-> Str("created"), sortDirection |-> Str("asc")])}

AssetIds == {PublicKey("Addr1"), PublicKey("Addr2")}
OwnerInputs ==
  [ownerAddress : {Str("Owner1")}, page : Pages, before : Cursors, after : Cursors,
   limit : Limits, sortBy : SortBys]
GroupInputs ==
  [groupKey : {Str("collection")}, groupValue : {Str("Coll1")}, page : Pages,
   before : Cursors, after : Cursors, limit : Limits, sortBy : SortBys]

\* the narrower draw of the concurrent specification
ConcurrentOwnerInputs ==
  [ownerAddress : {Str("Owner1")}, page : {Undefined, Num(1)},
   before : {Str("c1")}, after : {Undefined}, limit : {Undefined},
   sortBy : {Undefined}]
ConcurrentGroupInputs ==
  [groupKey : {Str("collection")}, groupValue : {Str("Coll1")}, page : {Undefined},
   before : {Undefined}, after : {Undefined}, limit : {Undefined}, sortBy : {Undefined}]
ConcurrentBehaviours == {"networkFailure", "jsonNull", "rpcError", "complete"}

ClusterUrl == "https://api.devnet.solana.com"

(***************************************************************************)
(* The client: one slot per caller.  A call runs from its entry to the     *)
(* fetch (the method's synchronous prefix), then resumes when fetch        *)
(* settles, then when response.json() settles.                             *)
(***************************************************************************)
Idle == [state |-> "idle"]

InitClient ==
  /\ rpcEndpoint = ClusterUrl
  /\ pc = [c \in Calls |-> "idle"]
  /\ method = [c \in Calls |-> "none"]
  /\ input = [c \in Calls |-> Undefined]
  /\ sent = [c \in Calls |-> << >>]
  /\ net = [c \in Calls |-> Idle]
  /\ response = [c \in Calls |-> Undefined]
  /\ outcome = [c \in Calls |-> Running]

\* the entry of a method: the caller's slot is free
Enter(c, m, in) ==
  /\ pc[c] \in {"idle", "done"}
  /\ method' = [method EXCEPT ![c] = m]
  /\ input' = [input EXCEPT ![c] = in]
  /\ response' = [response EXCEPT ![c] = Undefined]

\* callReadApi up to its await: one fetch, method POST, on a connection of its own
Post(c, request) ==
  /\ sent' = [sent EXCEPT ![c] = <<Envelope(request)>>]
  /\ net' = [net EXCEPT ![c] = [state |-> "pending", request |-> Envelope(request)]]
  /\ pc' = [pc EXCEPT ![c] = "awaitFetch"]
  /\ outcome' = [outcome EXCEPT ![c] = Running]

\* validatePagination threw: the method ends before callReadApi is reached
RejectPagination(c) ==
  /\ sent' = [sent EXCEPT ![c] = << >>]
  /\ net' = [net EXCEPT ![c] = Idle]
  /\ pc' = [pc EXCEPT ![c] = "done"]
  /\ outcome' = [outcome EXCEPT ![c] = PaginationError]

getAsset(c, assetId) ==
  /\ Enter(c, "getAsset", assetId)
  /\ Post(c, RpcRequest("getAsset", [id |-> Str(toBase58(assetId))]))
  /\ UNCHANGED <<rpcEndpoint, asset, metadata>>

getAssetProof(c, assetId) ==
  /\ Enter(c, "getAssetProof", assetId)
  /\ Post(c, RpcRequest("getAssetProof", [id |-> Str(toBase58(assetId))]))
  /\ UNCHANGED <<rpcEndpoint, asset, metadata>>

getAssetsByGroup(c, in) ==
  /\ Enter(c, "getAssetsByGroup", in)
  /\ IF PaginationRejected(in.page, in.before, in.after)
       THEN RejectPagination(c)
       ELSE Post(c, RpcRequest("getAssetsByGroup", ListParams(in)))
  /\ UNCHANGED <<rpcEndpoint, asset, metadata>>

getAssetsByOwner(c, in) ==
  /\ Enter(c, "getAssetsByOwner", in)
  /\ IF PaginationRejected(in.page, in.before, in.after)
       THEN RejectPagination(c)
       ELSE Post(c, RpcRequest("getAssetsByOwner", ListParams(in)))
  /\ UNCHANGED <<rpcEndpoint, asset, metadata>>

\* the remote service answers the request on connection c
EndpointResponds(c, behaviour) ==
  /\ net[c].state = "pending"
  /\ net' = [net EXCEPT ![c] = [state |-> "replied", request |-> net[c].request,
                                reply |-> Answer(net[c].request, behaviour)]]
  /\ UNCHANGED <<rpcEndpoint, pc, method, input, sent, response, outcome,
                 asset, metadata>>

\* a fetch matched to answers by the JSON-RPC id, which every request shares
SettledById(c) ==
  {d \in Calls : net[d].state = "replied" /\ net[d].request.id = sent[c][1].id}

\* the connections whose answer settles the fetch of call c: its own
Settled(c) == {d \in Calls : d = c /\ net[d].state = "replied"}

\* the catch block retrying the request once instead of throwing
CatchRetry(c, d, r) ==
  IF Len(sent[c]) < 2
    THEN /\ sent' = [sent EXCEPT ![c] = Append(@, sent[c][1])]
         /\ net' = [net EXCEPT ![d] = [state |-> "pending", request |-> sent[c][1]]]
         /\ UNCHANGED <<pc, outcome>>
    ELSE /\ net' = [net EXCEPT ![d].state = "delivered"]
         /\ pc' = [pc EXCEPT ![c] = "done"]
         /\ outcome' = [outcome EXCEPT ![c] = FetchError(r)]
         /\ UNCHANGED sent

\* the catch block of callReadApi: fetch rejected with r, or !response.ok
Catch(c, d, r) ==
  /\ net' = [net EXCEPT ![d].state = "delivered"]
  /\ pc' = [pc EXCEPT ![c] = "done"]
  /\ outcome' = [outcome EXCEPT ![c] = FetchError(r)]
  /\ UNCHANGED sent

\* callReadApi resumes after await fetch(...)
FetchSettles(c) ==
  /\ pc[c] = "awaitFetch"
  /\ \E d \in Settled(c) :
       LET r == net[d].reply IN
         IF FetchFailed(r)
           THEN Catch(c, d, r) /\ UNCHANGED response
           ELSE /\ net' = [net EXCEPT ![d].state = "delivered"]
                /\ response' = [response EXCEPT ![c] = r]
                /\ pc' = [pc EXCEPT ![c] = "awaitJson"]
                /\ UNCHANGED <<sent, outcome>>
  /\ UNCHANGED <<rpcEndpoint, method, input, asset, metadata>>

\* callReadApi resumes after await response.json() and the method finishes
JsonSettles(c) ==
  /\ pc[c] = "awaitJson"
  /\ outcome' = [outcome EXCEPT ![c] = AfterJson(method[c], response[c].body)]
  /\ pc' = [pc EXCEPT ![c] = "done"]
  /\ UNCHANGED <<rpcEndpoint, method, input, sent, net, response, asset, metadata>>

InitIdleTransform ==
  /\ asset = Undefined
  /\ metadata = Running

Init == InitClient /\ InitIdleTransform

\* one caller, awaiting each call before the next
Next ==
  \/ \E id \in AssetIds : getAsset(1, id)
  \/ \E id \in AssetIds : getAssetProof(1, id)
  \/ \E in \in GroupInputs : getAssetsByGroup(1, in)
  \/ \E in \in OwnerInputs : getAssetsByOwner(1, in)
  \/ \E b \in Behaviours : EndpointResponds(1, b)
  \/ FetchSettles(1)
  \/ JsonSettles(1)

Spec == Init /\ [][Next]_vars

\* NumCalls callers whose calls overlap
NextConcurrent ==
  \/ \E c \in Calls : \E id \in AssetIds : getAsset(c, id)
  \/ \E c \in Calls : getAssetProof(c, PublicKey("Addr1"))
  \/ \E c \in Calls : \E in \in ConcurrentGroupInputs : getAssetsByGroup(c, in)
  \/ \E c \in Calls : \E in \in ConcurrentOwnerInputs : getAssetsByOwner(c, in)
  \/ \E c \in Calls : \E b \in ConcurrentBehaviours : EndpointResponds(c, b)
  \/ \E c \in Calls : FetchSettles(c)
  \/ \E c \in Calls : JsonSettles(c)

SpecConcurrent == Init /\ [][NextConcurrent]_vars

(***************************************************************************)
(* toMetadataFromReadApiAsset.  A ReadApiAsset is a record of the fields   *)
(* its type requires; authorities may be absent (the code reads it with    *)
(* ?.), content.metadata may be null and its name and symbol missing.      *)
(***************************************************************************)
Arr(items) == [t |-> "array", items |-> items]

\* sequences over S of length at most n
SeqUpTo(S, n) == UNION {[1..k -> S] : k \in 0..n}

AuthorityEntries ==
  [address : {"Auth1", "Auth2"}, scopes : {{"full"}, {"royalty"}, {"royalty", "full"}}]
GroupingEntries ==
  [group_key : {"collection", "other"}, group_value : {"Coll1", "Coll2"}]

JsonMetadata ==
  {Null, Obj(<< >>), Obj([name |-> Str("")]), Obj([name |-> Str("NFT Name")]),
   Obj([symbol |-> Str("SSNC")]), Obj([name |-> Str("NFT Name"), symbol |-> Str("SSNC")]),
   Obj([name |-> Null, symbol |-> Str("SSNC")])}

Assets ==
  [id : {"Addr1"},
   authorities : {Undefined} \cup {Arr(a) : a \in SeqUpTo(AuthorityEntries, MaxAuthorities)},
   grouping : {Arr(g) : g \in SeqUpTo(GroupingEntries, MaxGrouping)},
   compression : {[tree |-> "Tree1", leaf_id |-> 7, compressed |-> TRUE]},
   supply : {[print_current_supply |-> 0, print_max_supply |-> 0, edition_nonce |-> 0]},
   royalty : {[basis_points |-> 500, primary_sale_happened |-> FALSE]},
   content : {[json_uri |-> "https://supersweetcollection.notarealurl/token.json",
               metadata |-> m] : m \in JsonMetadata},
   creators : {<<[address |-> "Payer", share |-> 100, verified |-> FALSE]>>},
   mutable : BOOLEAN]

\* array.find(predicate) over the indexes where the predicate holds
First(arr, hits) ==
  IF hits = {} THEN Undefined
  ELSE arr.items[CHOOSE i \in hits : \A j \in hits : i <= j]

\* find() without the scope test: the first authority, whatever its scopes
FindFirstAuthority(in) ==
  IF Nullish(in.authorities) THEN Undefined
  ELSE First(in.authorities, DOMAIN in.authorities.items)

\* input.authorities?.find((a) => a.scopes.includes("full"))
FindUpdateAuthority(in) ==
  IF Nullish(in.authorities) THEN Undefined
  ELSE First(in.authorities,
             {i \in DOMAIN in.authorities.items : "full" \in in.authorities.items[i].scopes})

\* input.grouping.find(({ group_key }) => group_key === "collection")
FindCollection(in) ==
  First(in.grouping,
        {i \in DOMAIN in.grouping.items : in.grouping.items[i].group_key = "collection"})

\* the collection reference built with verified copied as true
CollectionRefVerified(collection) ==
  IF collection # Undefined
    THEN [address |-> PublicKey(collection.group_value), verified |-> TRUE]
    ELSE Null

\* collection ? { address: new PublicKey(collection.group_value), verified: false } : null
CollectionRef(collection) ==
  IF collection # Undefined
    THEN [address |-> PublicKey(collection.group_value), verified |-> FALSE]
    ELSE Null

\* o?.k
OptionalGet(o, k) == IF Nullish(o) THEN Undefined ELSE Get(o, k)

\* the name read from the symbol property: a copy-and-paste slip
MetadataNameFromSymbol(in) ==
  Coalesce(OptionalGet(in.content.metadata, "symbol"), Str(""))

\* input.content.metadata?.name ?? ""
MetadataName(in) == Coalesce(OptionalGet(in.content.metadata, "name"), Str(""))

\* input.content.metadata?.symbol ?? ""
MetadataSymbol(in) == Coalesce(OptionalGet(in.content.metadata, "symbol"), Str(""))

\* Pda.find(BUBBLEGUM_PROGRAM_ID, ["asset", tree, leaf_id as 8 bytes LE]).data
AssetPda(in) ==
  [program |-> "BUBBLEGUM_PROGRAM_ID",
   seeds |-> <<"asset", PublicKey(in.compression.tree), in.compression.leaf_id>>]

toMetadataFromReadApiAsset(in) ==
  LET updateAuthority == FindUpdateAuthority(in)
      collection == FindCollection(in)
  IN IF updateAuthority = Undefined
       THEN ReadApiError("No update authority with full scope found.", NoCause)
       ELSE Returned(
         [model |-> "metadata",
          address |-> AssetPda(in),
          mintAddress |-> PublicKey(in.id),
          updateAuthorityAddress |-> PublicKey(updateAuthority.address),
          name |-> MetadataName(in),
          symbol |-> MetadataSymbol(in),
          json |-> in.content.metadata,
          jsonLoaded |-> TRUE,
          uri |-> in.content.json_uri,
          isMutable |-> in.mutable,
          primarySaleHappened |-> in.royalty.primary_sale_happened,
          sellerFeeBasisPoints |-> in.royalty.basis_points,
          creators |-> in.creators,
          editionNonce |-> in.supply.edition_nonce,
          tokenStandard |-> "NonFungible",
          collection |-> CollectionRef(collection),
          compression |-> in.compression,
          collectionDetails |-> Null,
          uses |-> Null,
          programmableConfig |-> Null])

\* a caller hands an asset it fetched earlier to the transformer
Transform ==
  /\ metadata = Running
  /\ metadata' = toMetadataFromReadApiAsset(asset)
  /\ UNCHANGED <<rpcEndpoint, pc, method, input, sent, net, response, outcome, asset>>

InitTransform ==
  /\ InitClient
  /\ asset \in Assets
  /\ metadata = Running

NextTransform == Transform

SpecTransform == InitTransform /\ [][NextTransform]_vars

(***************************************************************************)
(* The claims.                                                             *)
(***************************************************************************)
ListMethods == {"getAssetsByOwner", "getAssetsByGroup"}
PaginationFields == {"page", "before", "after"}

\* the caller gave the field a value: it is neither left out nor null
Supplied(x) == x # Undefined /\ x # Null

PaginationFailure(o) ==
  /\ o.kind = "threw"
  /\ o.name = "ReadApiError"
  /\ o.message = "Pagination Error. Only one pagination parameter supported per query."

\* C1: a getAssetsByOwner or getAssetsByGroup call given a page number together
\* with a before cursor or an after cursor fails with the validation error and
\* has issued no HTTP POST.
C1_PageWithCursorFailsBeforeNetwork ==
  \A c \in Calls :
    (/\ method[c] \in ListMethods
     /\ Supplied(input[c].page)
     /\ (Supplied(input[c].before) \/ Supplied(input[c].after)))
    => (PaginationFailure(outcome[c]) /\ Len(sent[c]) = 0 /\ net[c] = Idle)

\* C1, the part the code keeps: the same with a cursor that is a non-empty string.
C1_PageWithNonEmptyCursorFailsBeforeNetwork ==
  \A c \in Calls :
    (/\ method[c] \in ListMethods
     /\ Supplied(input[c].page)
     /\ \E f \in {"before", "after"} :
          Supplied(input[c][f]) /\ input[c][f] # Str(""))
    => (PaginationFailure(outcome[c]) /\ Len(sent[c]) = 0 /\ net[c] = Idle)

\* the value the wire must carry for field f of input in, given its default
OnTheWire(in, f, default) == IF Supplied(in[f]) THEN in[f] ELSE default

\* C2: every request a list method sends carries page, before, after, limit and
\* sortBy explicitly: the caller's value where one was supplied, page 1 and null
\* for the others where it was omitted; the scoping fields are the caller's.
C2_ListParamsNormalised ==
  \A c \in Calls : \A i \in 1..Len(sent[c]) :
    method[c] \in ListMethods =>
      LET p == sent[c][i].params
          in == input[c]
      IN /\ {"page", "before", "after", "limit", "sortBy"} \subseteq DOMAIN p
         /\ p.page = OnTheWire(in, "page", Num(1))
         /\ \A f \in {"before", "after", "limit", "sortBy"} :
              p[f] = OnTheWire(in, f, Null)
         /\ \A f \in DOMAIN in \ {"page", "before", "after", "limit", "sortBy"} :
              f \in DOMAIN p /\ p[f] = in[f]
         /\ DOMAIN p = DOMAIN in

C2_Witness ==
  /\ method[1] = "getAssetsByOwner"
  /\ Len(sent[1]) = 1
  /\ input[1].page = Undefined
  /\ input[1].before = Str("c1")
  /\ input[1].limit = Undefined
  /\ sent[1][1].params.page = Num(1)
  /\ sent[1][1].params.limit = Null

\* the endpoint behaviours C3 lists: network failure, non-2xx status, a body
\* that is not JSON, a parsed body with no result field
FailureAnswer(r) ==
  \/ r.k = "rejected"
  \/ r.status < 200
  \/ r.status > 299
  \/ r.body = NotJson
  \/ ~(r.body.t = "object" /\ "result" \in DOMAIN r.body.props)

\* C3: a call whose request met one of those behaviours has failed with
\* ReadApiError: no other error kind, no returned value.
C3_UniformClientError ==
  \A c \in Calls :
    (pc[c] = "done" /\ net[c].state = "delivered" /\ FailureAnswer(net[c].reply))
    => (outcome[c].kind = "threw" /\ outcome[c].name = "ReadApiError")

\* C4: whatever getAsset returns is a structurally complete Asset: an object
\* with every field of the Asset data model.
C4_GetAssetReturnsCompleteAsset ==
  \A c \in Calls :
    (pc[c] = "done" /\ method[c] = "getAsset" /\ outcome[c].kind = "returned")
    => (outcome[c].value.t = "object" /\ AssetFields \subseteq DOMAIN outcome[c].value.props)

\* C7: every request a list method sends has exactly one of page, before and
\* after set (present and not null) in its params.
C7_ExactlyOnePaginationParameterSent ==
  \A c \in Calls : \A i \in 1..Len(sent[c]) :
    method[c] \in ListMethods =>
      Cardinality({f \in PaginationFields :
                     f \in DOMAIN sent[c][i].params /\ sent[c][i].params[f] # Null}) = 1

\* C8: a call posts at most once over its lifetime, and exactly once unless
\* pagination validation stopped it; a failed call has not posted again; each
\* request carries jsonrpc "2.0", the method, the params and the default id.
C8_SinglePostPerCall ==
  \A c \in Calls :
    /\ Len(sent[c]) <= 1
    /\ (Len(sent[c]) = 0) <=> (pc[c] = "idle" \/ PaginationFailure(outcome[c]))
    /\ \A i \in 1..Len(sent[c]) :
         /\ sent[c][i].jsonrpc = "2.0"
         /\ sent[c][i].method = method[c]
         /\ sent[c][i].id = Str("rpd-op-123")
         /\ method[c] \in {"getAsset", "getAssetProof"} =>
              sent[c][i].params = [id |-> Str(input[c].b58)]
         /\ method[c] \in ListMethods =>
              \A f \in DOMAIN input[c] : f \in DOMAIN sent[c][i].params
    /\ (pc[c] = "done" /\ outcome[c].kind = "threw" /\ ~PaginationFailure(outcome[c]))
         => (Len(sent[c]) = 1 /\ net[c].state = "delivered")

C8_Witness ==
  /\ pc[1] = "done"
  /\ method[1] = "getAssetProof"
  /\ outcome[1].kind = "threw"
  /\ outcome[1].cause = [name |-> "TypeError"]
  /\ net[1].reply = NetworkFailure
  /\ Len(sent[1]) = 1

\* the outcome of a call made alone: validation, then the fetch, then the body
RunAlone(m, in, reply) ==
  IF FetchFailed(reply) THEN FetchError(reply) ELSE AfterJson(m, reply.body)

\* C9: under every interleaving a finished call has the outcome it would have
\* alone, decided by its own arguments and the answer to its own request, and
\* the client's state is what it was.
C9_ConcurrentCallsIndependent ==
  /\ rpcEndpoint = ClusterUrl
  /\ \A c \in Calls :
       pc[c] = "done" =>
         IF method[c] \in ListMethods
            /\ PaginationRejected(input[c].page, input[c].before, input[c].after)
           THEN outcome[c] = PaginationError /\ net[c] = Idle
           ELSE /\ net[c].state = "delivered"
                /\ net[c].request.method = method[c]
                /\ outcome[c] = RunAlone(method[c], input[c], net[c].reply)

C9_Witness ==
  /\ pc[1] = "awaitJson"
  /\ method[1] = "getAsset"
  /\ pc[2] = "done"
  /\ method[2] = "getAssetsByOwner"
  /\ outcome[2].kind = "threw"
  /\ net[2].state = "delivered"
  /\ net[2].reply = NetworkFailure

\* the indexes of the authority entries of asset a that carry the "full" scope
FullScopeEntries(a) ==
  IF a.authorities = Undefined THEN {}
  ELSE {i \in DOMAIN a.authorities.items : "full" \in a.authorities.items[i].scopes}

\* the indexes of the grouping entries of asset a keyed "collection"
CollectionEntries(a) ==
  {i \in DOMAIN a.grouping.items : a.grouping.items[i].group_key = "collection"}

\* C5: on an asset with no full-scope authority (list absent, empty, or only
\* other scopes) the transformer fails with its mapping error and returns
\* nothing; a returned object's update authority is the address of a
\* full-scope authority entry of the input.
C5_FullScopeAuthorityRequired ==
  metadata # Running =>
    /\ FullScopeEntries(asset) = {} =>
         /\ metadata.kind = "threw"
         /\ metadata.name = "ReadApiError"
         /\ metadata.message = "No update authority with full scope found."
    /\ metadata.kind = "returned" =>
         \E i \in FullScopeEntries(asset) :
           toBase58(metadata.value.updateAuthorityAddress)
             = asset.authorities.items[i].address

C5_Witness ==
  /\ metadata.kind = "threw"
  /\ asset.authorities # Undefined
  /\ Len(asset.authorities.items) = 2
  /\ FullScopeEntries(asset) = {}

\* C6: with a full-scope authority the transformer returns; collection is null
\* when no grouping entry is keyed "collection", and otherwise refers to the
\* group_value of such an entry with verified = false.
C6_CollectionNeverVerified ==
  (metadata # Running /\ FullScopeEntries(asset) # {}) =>
    /\ metadata.kind = "returned"
    /\ IF CollectionEntries(asset) = {}
         THEN metadata.value.collection = Null
         ELSE /\ metadata.value.collection # Null
              /\ metadata.value.collection.verified = FALSE
              /\ \E i \in CollectionEntries(asset) :
                   toBase58(metadata.value.collection.address)
                     = asset.grouping.items[i].group_value

C6_Witness ==
  /\ metadata.kind = "returned"
  /\ Len(asset.grouping.items) = 2
  /\ asset.grouping.items[1] = [group_key |-> "other", group_value |-> "Coll2"]
  /\ asset.grouping.items[2] = [group_key |-> "collection", group_value |-> "Coll1"]
  /\ metadata.value.collection = [address |-> PublicKey("Coll1"), verified |-> FALSE]

\* the fields of a returned object that are copied from the input as they are
CopiedVerbatim(a, out) ==
  /\ out.json = a.content.metadata
  /\ out.uri = a.content.json_uri
  /\ out.isMutable = a.mutable
  /\ out.primarySaleHappened = a.royalty.primary_sale_happened
  /\ out.sellerFeeBasisPoints = a.royalty.basis_points
  /\ out.creators = a.creators
  /\ out.editionNonce = a.supply.edition_nonce
  /\ out.compression = a.compression

\* property k of the input's content.metadata is there to be copied
Present(a, k) ==
  /\ a.content.metadata # Null
  /\ k \in DOMAIN a.content.metadata.props
  /\ Supplied(a.content.metadata.props[k])

\* C10 as stated: a returned object has every input-derived field, name and
\* symbol among them, equal to the input's field, which is therefore present;
\* an absent one makes the call fail.
C10_NoFallbackSubstitution ==
  metadata.kind = "returned" =>
    /\ CopiedVerbatim(asset, metadata.value)
    /\ \A k \in {"name", "symbol"} :
         Present(asset, k) /\ metadata.value[k] = asset.content.metadata.props[k]

\* C10 as amended: name and symbol are the input's when present and the empty
\* string otherwise; the other input-derived fields are the input's verbatim;
\* a missing full-scope authority is never defaulted: the call fails.
C10_FallbackOnlyForNameAndSymbol ==
  /\ metadata.kind = "returned" =>
       /\ CopiedVerbatim(asset, metadata.value)
       /\ \A k \in {"name", "symbol"} :
            metadata.value[k] = IF Present(asset, k)
                                  THEN asset.content.metadata.props[k]
                                  ELSE Str("")
  /\ (metadata # Running /\ FullScopeEntries(asset) = {}) => metadata.kind = "threw"

C10_Witness ==
  /\ metadata.kind = "returned"
  /\ asset.content.metadata = Obj([symbol |-> Str("SSNC")])
  /\ metadata.value.name = Str("")
  /\ metadata.value.symbol = Str("SSNC")
  /\ metadata.value.json = asset.content.metadata

====
